---- MODULE Spec2Model ----
(***************************************************************************)
(* A model of adedayo/tls-stats (package stats).                           *)
(*                                                                         *)
(*   - the key normaliser (browserKey, dedupFamily, collapseVersion,       *)
(*     deviceKey),                                                         *)
(*   - the join and aggregation engine (analyseStats, getTLSStats),        *)
(*   - the report builder (TLSStats.sort, kv.Less, toJSONStruct),          *)
(*   - the usage loader (loadBrowserOSStats),                              *)
(*   - the cache manager (GetStats, renameCurrentStats,                    *)
(*     analyseAndWriteToFile, DownloadData, download).                     *)
(*                                                                         *)
(* Conventions.                                                            *)
(*   A Go map is a function with a finite domain.  A join key             *)
(*   "family:version" is the pair <<family, version>>.  A percentage      *)
(*   float64(v)/float64(Total) is kept as the exact fraction Num/Den.     *)
(*   Dates are integers counting calendar months; an instant is an        *)
(*   integer number of ticks, TicksPerDate ticks to a date.  An Entry     *)
(*   keeps its ID and its percentage; a Browser keeps the fields the      *)
(*   pipeline reads (Date, BrowserFamily, BrowserMajorVersion, Count).    *)
(***************************************************************************)
EXTENDS Integers, Sequences, FiniteSets, TLC

VARIABLES
    \* ---- join, aggregation and report (analyseStats .. toJSONStruct)
    browsers,     \* []Browser handed to the join
    devices,      \* []Device handed to the join
    stats,        \* TLSStats returned by analyseStats
    diag,         \* found / notfound / m diagnostics of analyseStats
    statistics,   \* TLSStatistics built by toJSONStruct
    apc,          \* position of the pipeline: "input", "analysed", "reported"
    \* ---- usage loader (loadBrowserOSStats)
    lines,        \* the lines of the usage file
    ln,           \* index of the next line the scanner yields
    loaded,       \* the browsers slice built so far
    lpc,          \* "scan", "done", "panic"
    \* ---- cache manager (GetStats)
    now,          \* time.Now(), in ticks
    today,        \* package variable today: the date at process start
    current,      \* content of tls-stats-current.json
    archive,      \* date -> content of tls-stats-<date>.json
    browserFile,  \* date -> content of browser-stats-<date>.tsv
    deviceFile,   \* date -> content of device-ciphers-<date>.json
    written,      \* history: every report WriteFile has stored
    last,         \* history: what the last GetStats call saw and did
    calls         \* number of GetStats calls made

aggVars   == <<browsers, devices, stats, diag, statistics, apc>>
loadVars  == <<lines, ln, loaded, lpc>>
cacheVars == <<now, today, current, archive, browserFile, deviceFile, written, last, calls>>
vars      == <<aggVars, loadVars, cacheVars>>

-----------------------------------------------------------------------------
(* Bounds of the model *)

MaxBrowsers == 2
MaxDevices  == 2
MaxWeight   == 2
MaxLines    == 3
MaxCalls    == 2
TicksPerDate == 2

\* statistics.GenerationDate.Before(time.Now().AddDate(0, -6, 0))
StaleMonths == 6

(* Program constants *)

\* lowestProtocol := 768 // limit protocols floor to SSL v3
FloorProtocol == 768

-----------------------------------------------------------------------------
(* Generic helpers on maps, sequences and sets *)

EmptyMap == [x \in {} |-> 0]

Has(m, k) == k \in DOMAIN m

Get(m, k) == IF k \in DOMAIN m THEN m[k] ELSE 0

Put(m, k, v) == [x \in (DOMAIN m) \cup {k} |-> IF x = k THEN v ELSE m[x]]

Range(s) == {s[i] : i \in DOMAIN s}

SeqsUpTo(S, n) == UNION {[1..k -> S] : k \in 0..n}

RECURSIVE SumOver(_, _)
\* the sum of f[x] for x in S
SumOver(S, f) ==
    IF S = {} THEN 0
    ELSE LET x == CHOOSE y \in S : TRUE IN f[x] + SumOver(S \ {x}, f)

Perms(S) == {s \in [1..Cardinality(S) -> S] : Range(s) = S}

-----------------------------------------------------------------------------
(* Key normaliser *)

dedupFamily(browser) ==
    CASE browser = "Chrome Mobile"              -> "Chrome"
      [] browser = "Chrome Mobile WebView"      -> "Chrome"
      [] browser = "Chrome Mobile iOS"          -> "Chrome"
      [] browser = "Chromium"                   -> "Chrome"
      [] browser = "Firefox Mobile"             -> "Firefox"
      [] browser = "Thunderbird"                -> "Firefox"
      [] browser = "Firefox iOS"                -> "Firefox"
      [] browser = "Opera Mini"                 -> "Opera"
      [] browser = "Opera Mobile"               -> "Opera"
      [] browser = "Mobile Safari"              -> "Safari"
      [] browser = "Mobile Safari UIWebView"    -> "Safari"
      [] browser = "Mobile Safari UI/WKWebView" -> "Safari"
      [] browser = "Samsung Internet"           -> "Android"
      [] browser = "IE Mobile"                  -> "IE"
      [] browser = "Edge Mobile"                -> "Edge"
      [] OTHER                                  -> browser

\* The version tables live in a file of the repository that is not part of
\* the sources at hand; they are raw version -> normalised version maps.
chromeVers  == [v \in {"91"} |-> "90"]
firefoxVers == [v \in {} |-> ""]
androidVers == [v \in {} |-> ""]
safariVers  == [v \in {} |-> ""]
operaVers   == [v \in {} |-> ""]
edgeVers    == [v \in {} |-> ""]
ieVers      == [v \in {} |-> ""]

versTable(fam) ==
    CASE fam = "Chrome"  -> chromeVers
      [] fam = "Firefox" -> firefoxVers
      [] fam = "Android" -> androidVers
      [] fam = "Safari"  -> safariVers
      [] fam = "Opera"   -> operaVers
      [] fam = "Edge"    -> edgeVers
      [] fam = "IE"      -> ieVers
      [] OTHER           -> [v \in {} |-> ""]

collapseVersion(browser) ==
    LET fam == browser[1]
        ver == browser[2]
    IN IF ver \in DOMAIN versTable(fam) THEN <<fam, versTable(fam)[ver]>> ELSE browser

browserKey(browser) ==
    collapseVersion(<<dedupFamily(browser.BrowserFamily), browser.BrowserMajorVersion>>)

deviceKey(device) == <<device.Name, device.Version>>

-----------------------------------------------------------------------------
(* Join and aggregation engine *)

\* for _, d := range devices { deviceKeys[deviceKey(d)] = d }: the last wins
RECURSIVE deviceMap(_, _)
deviceMap(devs, acc) ==
    IF devs = <<>> THEN acc
    ELSE deviceMap(Tail(devs), Put(acc, deviceKey(Head(devs)), Head(devs)))

\* if count, present := m[k]; present { m[k] = count + c } else { m[k] = c }
AddTo(m, k, c) == IF Has(m, k) THEN Put(m, k, m[k] + c) ELSE Put(m, k, c)

RECURSIVE AddAll(_, _, _)
\* for _, cid := range ids { add c to m[cid] }
AddAll(m, ids, c) ==
    IF ids = <<>> THEN m ELSE AddAll(AddTo(m, Head(ids), c), Tail(ids), c)

RECURSIVE AddRange(_, _, _, _)
\* for p := lo; p <= hi; p++ { add c to m[p] }
AddRange(m, lo, hi, c) ==
    IF lo > hi THEN m ELSE AddRange(AddTo(m, lo, c), lo + 1, hi, c)

\* mutant of effectiveLowest: the floor is forgotten
effectiveLowestUnfloored(dev) == dev.LowestProtocol

\* the floored lowest protocol of a device
effectiveLowest(dev) ==
    IF dev.LowestProtocol > FloorProtocol THEN dev.LowestProtocol ELSE FloorProtocol

\* one iteration of the loop over the browsers map in getTLSStats
tlsStep(acc, deviceKeys, b, c) ==
    LET withTotal == [acc EXCEPT !.Total = @ + c]
    IN IF Has(deviceKeys, b)
       THEN LET dev == deviceKeys[b]
            IN [withTotal EXCEPT
                   !.Protocols = AddRange(@, effectiveLowest(dev), dev.HighestProtocol, c),
                   !.Ciphers   = AddAll(@, dev.SuiteIds, c),
                   !.Curves    = AddAll(@, dev.EllipticCurves, c)]
       ELSE withTotal

RECURSIVE tlsLoop(_, _, _, _)
\* the loop over the browsers map, visiting its keys in the order `order`
tlsLoop(acc, deviceKeys, browserMap, order) ==
    IF order = <<>> THEN acc
    ELSE tlsLoop(tlsStep(acc, deviceKeys, Head(order), browserMap[Head(order)]),
                 deviceKeys, browserMap, Tail(order))

\* getTLSStats, with the map iterated in the order `order`
getTLSStats(browserMap, devs, order) ==
    tlsLoop([Protocols |-> EmptyMap, Ciphers |-> EmptyMap, Curves |-> EmptyMap,
             Total |-> 0, devices |-> devs],
            deviceMap(devs, EmptyMap), browserMap, order)

\* mutant of joinStep: the weight of an unmatched record is merged as well
joinStepCountsUnmatched(acc, deviceKeys, b) ==
    LET key == browserKey(b)
    IN IF key \in deviceKeys
       THEN [acc EXCEPT !.found = @ + 1,
                        !.browserMap = AddTo(@, key, b.Count)]
       ELSE [acc EXCEPT !.notfound = @ + 1,
                        !.m = AddTo(@, key, 1),
                        !.browserMap = AddTo(@, key, b.Count)]

\* one iteration of the loop over browsers in analyseStats
joinStep(acc, deviceKeys, b) ==
    LET key == browserKey(b)
    IN IF key \in deviceKeys
       THEN [acc EXCEPT !.found = @ + 1,
                        !.browserMap = AddTo(@, key, b.Count)]
       ELSE [acc EXCEPT !.notfound = @ + 1,
                        !.m = AddTo(@, key, 1)]

RECURSIVE joinLoop(_, _, _)
joinLoop(acc, deviceKeys, bs) ==
    IF bs = <<>> THEN acc
    ELSE joinLoop(joinStep(acc, deviceKeys, Head(bs)), deviceKeys, Tail(bs))

\* the join of analyseStats: found, notfound, m and browserMap
joinBrowsers(bs, devs) ==
    joinLoop([found |-> 0, notfound |-> 0, m |-> EmptyMap, browserMap |-> EmptyMap],
             {deviceKey(devs[i]) : i \in DOMAIN devs}, bs)

\* getDateRange
getDateRange(bs) ==
    IF Len(bs) > 0
    THEN LET dates == {bs[i].Date : i \in DOMAIN bs}
         IN [start |-> CHOOSE d \in dates : \A e \in dates : d <= e,
             end   |-> CHOOSE d \in dates : \A e \in dates : d >= e]
    ELSE [start |-> 0, end |-> 0]

-----------------------------------------------------------------------------
(* Report builder *)

\* kv.Less: s[i].v > s[j].v
Less(x, y) == x.v > y.v

\* the kv slice a map is copied into, as a set of intByInt64 values
kvOf(m) == {[k |-> x, v |-> m[x]] : x \in DOMAIN m}

\* what sort.Sort guarantees of its result: no later element is Less than an
\* earlier one
IsSortedBy(s) == \A i, j \in DOMAIN s : i < j => ~Less(s[j], s[i])

\* TLSStats.sort on one map: the map is appended in its iteration order, which
\* Go leaves unspecified, and sort.Sort is not stable, so every ordering that
\* satisfies Less is a possible result
sortResults(m) == {s \in Perms(kvOf(m)) : IsSortedBy(s)}

\* mutant of entries: each sequence is normalised by its own sum of counts
entriesOverOwnSum(sorted, total) ==
    [i \in DOMAIN sorted |->
        [ID |-> sorted[i].k, Num |-> sorted[i].v,
         Den |-> SumOver(DOMAIN sorted, [j \in DOMAIN sorted |-> sorted[j].v])]]

\* the Entry values built from one sorted kv slice
entries(sorted, total) ==
    [i \in DOMAIN sorted |-> [ID |-> sorted[i].k, Num |-> sorted[i].v, Den |-> total]]

\* toJSONStruct, given the three sorted slices and the current date
toJSONStruct(st, start, end, ps, cs, vs, date) ==
    [GenerationDate |-> date,
     StartDate      |-> start,
     EndDate        |-> end,
     Protocols      |-> entries(ps, st.Total),
     Ciphers        |-> entries(cs, st.Total),
     Curves         |-> entries(vs, st.Total)]

\* the zero value of TLSStatistics
ZeroStatistics ==
    [GenerationDate |-> 0, StartDate |-> 0, EndDate |-> 0,
     Protocols |-> <<>>, Ciphers |-> <<>>, Curves |-> <<>>]

ZeroStats ==
    [Protocols |-> EmptyMap, Ciphers |-> EmptyMap, Curves |-> EmptyMap,
     Total |-> 0, devices |-> <<>>]

ZeroDiag == [found |-> 0, notfound |-> 0, m |-> EmptyMap, browserMap |-> EmptyMap]

-----------------------------------------------------------------------------
(* Inputs of the pipeline *)

\* (family, major version) pairs of usage records: a canonical family, an
\* alias whose version collapses, and a second family (a family is unmatched
\* when the capability dataset holds no profile for it)
UsageKinds == {<<"Chrome", "90">>, <<"Chrome Mobile", "91">>, <<"Opera", "90">>}

BrowserInputs ==
    {[Date |-> 0, BrowserFamily |-> fv[1], BrowserMajorVersion |-> fv[2], Count |-> c] :
        fv \in UsageKinds, c \in 0..MaxWeight}

\* capability profiles: a floor below SSL v3; a second profile with the same
\* key and an empty protocol range; a repeated cipher id and no curve
DeviceInputs ==
    {[Name |-> "Chrome", Version |-> "90", LowestProtocol |-> 767, HighestProtocol |-> 769,
      SuiteIds |-> <<4865, 49195>>, EllipticCurves |-> <<29>>],
     [Name |-> "Chrome", Version |-> "90", LowestProtocol |-> 771, HighestProtocol |-> 770,
      SuiteIds |-> <<4865>>, EllipticCurves |-> <<29, 23>>],
     [Name |-> "Opera", Version |-> "90", LowestProtocol |-> 769, HighestProtocol |-> 770,
      SuiteIds |-> <<4865, 4865>>, EllipticCurves |-> <<>>]}

-----------------------------------------------------------------------------
(* The pipeline as a state machine: analyseStats, then toJSONStruct *)

LoadIdle ==
    /\ lines = <<>> /\ ln = 1 /\ loaded = [panic |-> FALSE, browsers |-> <<>>]
    /\ lpc = "idle"

CacheIdle ==
    /\ now = 0 /\ today = 0 /\ current = [kind |-> "absent", rep |-> ZeroStatistics]
    /\ archive = EmptyMap /\ browserFile = EmptyMap /\ deviceFile = EmptyMap
    /\ written = {} /\ last = [op |-> "none"] /\ calls = 0

AggIdle ==
    /\ browsers = <<>> /\ devices = <<>> /\ stats = ZeroStats /\ diag = ZeroDiag
    /\ statistics = ZeroStatistics /\ apc = "idle"

AggInit ==
    /\ browsers \in SeqsUpTo(BrowserInputs, MaxBrowsers)
    /\ devices \in SeqsUpTo(DeviceInputs, MaxDevices)
    /\ stats = ZeroStats
    /\ diag = ZeroDiag
    /\ statistics = ZeroStatistics
    /\ apc = "input"
    /\ LoadIdle
    /\ CacheIdle

\* analyseStats: the join, then getTLSStats over the joined map
AnalyseStats ==
    /\ apc = "input"
    /\ LET j == joinBrowsers(browsers, devices)
       IN /\ diag' = j
          /\ \E order \in Perms(DOMAIN j.browserMap) :
                stats' = getTLSStats(j.browserMap, devices, order)
    /\ apc' = "analysed"
    /\ UNCHANGED <<browsers, devices, statistics, loadVars, cacheVars>>

\* stats.toJSONStruct(start, end): sort, then build the entries
ToJSONStruct ==
    /\ apc = "analysed"
    /\ \E ps \in sortResults(stats.Protocols),
          cs \in sortResults(stats.Ciphers),
          vs \in sortResults(stats.Curves) :
            statistics' = toJSONStruct(stats, getDateRange(browsers).start,
                                       getDateRange(browsers).end, ps, cs, vs, 0)
    /\ apc' = "reported"
    /\ UNCHANGED <<browsers, devices, stats, diag, loadVars, cacheVars>>

AggNext == AnalyseStats \/ ToJSONStruct

SpecAgg == AggInit /\ [][AggNext]_vars

-----------------------------------------------------------------------------
(* Vocabulary of the properties of the pipeline, stated on its inputs *)

\* the keys of the capability profiles
ProfileKeys == {deviceKey(devices[i]) : i \in DOMAIN devices}

\* the usage records whose JoinKey is the key of some capability profile
MatchedRecords == {i \in DOMAIN browsers : browserKey(browsers[i]) \in ProfileKeys}

UnmatchedRecords == (DOMAIN browsers) \ MatchedRecords

\* the distinct matched JoinKeys
MatchedKeys == {browserKey(browsers[i]) : i \in MatchedRecords}

\* the capability profile a key matches: the last one of the dataset with it
ProfileOf(k) ==
    LET is == {i \in DOMAIN devices : deviceKey(devices[i]) = k}
    IN devices[CHOOSE i \in is : \A j \in is : j <= i]

\* the combined weight of a key
WeightOf(k) ==
    SumOver({i \in DOMAIN browsers : browserKey(browsers[i]) = k},
            [i \in DOMAIN browsers |-> browsers[i].Count])

\* the protocol identifiers the profiles of DeviceInputs can name
ProtocolIds == 767..772

\* the protocol identifiers a profile supports, floored at SSL v3 (768)
ProtocolsOf(P) ==
    {p \in ProtocolIds : p >= P.LowestProtocol /\ p >= 768 /\ p <= P.HighestProtocol}

\* how many times a profile contributes to an identifier of a tally
Times(which, P, id) ==
    CASE which = "Protocols" -> IF id \in ProtocolsOf(P) THEN 1 ELSE 0
      [] which = "Ciphers"   -> Cardinality({i \in DOMAIN P.SuiteIds : P.SuiteIds[i] = id})
      [] which = "Curves"    ->
            Cardinality({i \in DOMAIN P.EllipticCurves : P.EllipticCurves[i] = id})

\* how many contributions a profile makes to a tally
Contributions(which, P) ==
    CASE which = "Protocols" -> Cardinality(ProtocolsOf(P))
      [] which = "Ciphers"   -> Len(P.SuiteIds)
      [] which = "Curves"    -> Len(P.EllipticCurves)

\* the identifiers a profile contributes to a tally
IdsOf(which, P) ==
    CASE which = "Protocols" -> ProtocolsOf(P)
      [] which = "Ciphers"   -> Range(P.SuiteIds)
      [] which = "Curves"    -> Range(P.EllipticCurves)

Tallies == {"Protocols", "Ciphers", "Curves"}

TallyOf(which) ==
    CASE which = "Protocols" -> stats.Protocols
      [] which = "Ciphers"   -> stats.Ciphers
      [] which = "Curves"    -> stats.Curves

SequenceOf(which) ==
    CASE which = "Protocols" -> statistics.Protocols
      [] which = "Ciphers"   -> statistics.Ciphers
      [] which = "Curves"    -> statistics.Curves

AllIds == ProtocolIds \cup {4865, 49195, 29, 23}

\* the sum of the counts of a report sequence
NumSum(seq) == SumOver(DOMAIN seq, [i \in DOMAIN seq |-> seq[i].Num])

-----------------------------------------------------------------------------
(* C6: totalWeight is the sum of the weights of exactly the usage records     *)
(* whose JoinKey is the key of some capability profile, and every count of   *)
(* the three tallies is made of the weights of matched records only: a      *)
(* record with no matching profile adds nothing anywhere.                   *)
C6_MatchedWeightOnly ==
    apc = "analysed" =>
        LET matched == MatchedRecords
            weight  == [i \in DOMAIN browsers |-> browsers[i].Count]
            profile == [i \in matched |-> ProfileOf(browserKey(browsers[i]))]
        IN /\ stats.Total = SumOver(matched, weight)
           /\ \A which \in Tallies : \A id \in AllIds :
                 Get(TallyOf(which), id) =
                    SumOver(matched,
                            [i \in matched |-> weight[i] * Times(which, profile[i], id)])

\* a run of the join with a weighted matched record and a weighted unmatched one
C6_Witness ==
    /\ apc = "analysed"
    /\ \E i \in MatchedRecords : browsers[i].Count > 0
    /\ \E i \in UnmatchedRecords : browsers[i].Count > 0
    /\ diag.notfound > 0

(* C7: each distinct matched JoinKey with combined weight W and profile P     *)
(* adds exactly W to protocolCounts[p] for p in [max(P.lowest, 768),         *)
(* P.highest], W to cipherCounts[id] per id of P.cipherSuiteIds and W to     *)
(* curveCounts[id] per id of P.curveIds, and W to totalWeight; nothing else  *)
(* is in the tallies; an empty protocol range adds no protocol entry.        *)
C7_PerKeyContribution ==
    apc = "analysed" =>
        LET keys == MatchedKeys
            W    == [k \in keys |-> WeightOf(k)]
            P    == [k \in keys |-> ProfileOf(k)]
        IN /\ stats.Total = SumOver(keys, W)
           /\ \A which \in Tallies :
                 /\ DOMAIN TallyOf(which) = UNION {IdsOf(which, P[k]) : k \in keys}
                 /\ \A id \in DOMAIN TallyOf(which) :
                       TallyOf(which)[id] =
                          SumOver(keys, [k \in keys |-> W[k] * Times(which, P[k], id)])

\* two weighted records of different families that normalise to one key, whose
\* profile (the last of two with that key) has an empty protocol range: no
\* protocol entry, the combined weight on its cipher and in totalWeight
C7_Witness ==
    /\ apc = "analysed"
    /\ \E i, j \in MatchedRecords :
          /\ i # j
          /\ browserKey(browsers[i]) = browserKey(browsers[j])
          /\ browsers[i].BrowserFamily # browsers[j].BrowserFamily
          /\ browsers[i].Count > 0 /\ browsers[j].Count > browsers[i].Count
          /\ ProtocolsOf(ProfileOf(browserKey(browsers[i]))) = {}
          /\ Len(devices) = 2 /\ deviceKey(devices[1]) = deviceKey(devices[2])
          /\ stats.Protocols = EmptyMap
          /\ stats.Ciphers = (4865 :> (browsers[i].Count + browsers[j].Count))
          /\ stats.Total = browsers[i].Count + browsers[j].Count

C9_SortedWithTieBreak ==
    apc = "reported" =>
        \A which \in Tallies :
            \A i, j \in DOMAIN SequenceOf(which) :
                i < j =>
                    \/ SequenceOf(which)[i].Num > SequenceOf(which)[j].Num
                    \/ /\ SequenceOf(which)[i].Num = SequenceOf(which)[j].Num
                       /\ SequenceOf(which)[i].ID < SequenceOf(which)[j].ID

-----------------------------------------------------------------------------
(* Usage loader: loadBrowserOSStats *)

\* strconv.ParseInt(s, 10, 64) on the texts the model uses; any other text is
\* an error
IntText == ("0" :> 0) @@ ("1" :> 1) @@ ("2" :> 2)

\* time.Parse(dateFormat, s) on the texts the model uses, as a date (the month
\* counted from 2019-01); any other text is an error
DateText == ("2019-06-01" :> 5) @@ ("2020-01-01" :> 12) @@ ("2021-05-01" :> 28)

\* time.Date(year-1, 0, 0, ...): the last of November of the year before last
yearAgoOf(date) == ((date \div 12) - 1) * 12 - 2

\* the body of the scanner loop on one line, split at the tabs into `data`.
\* Go indexes from 0: data[5] is the sixth field, and reading it from a slice
\* of five fields is a run-time panic.
scanLine(acc, data, yearAgo) ==
    IF acc.panic THEN acc
    ELSE IF Len(data) > 4
    THEN IF Len(data) < 6
         THEN [acc EXCEPT !.panic = TRUE]
         ELSE IF data[6] \in DOMAIN IntText
              THEN IF data[1] \in DOMAIN DateText /\ DateText[data[1]] > yearAgo
                   THEN [acc EXCEPT !.browsers =
                            Append(@, [Date                |-> DateText[data[1]],
                                       BrowserFamily       |-> data[4],
                                       BrowserMajorVersion |-> data[5],
                                       Count               |-> IntText[data[6]]])]
                   ELSE acc
              ELSE acc
    ELSE acc

\* the records with the given property, in order
RECURSIVE keepAfter(_, _)
keepAfter(bs, cut) ==
    IF bs = <<>> THEN <<>>
    ELSE IF Head(bs).Date > cut
         THEN <<Head(bs)>> \o keepAfter(Tail(bs), cut)
         ELSE keepAfter(Tail(bs), cut)

\* limit to about one year's worth of data, counted back from the last record
trimToYear(bs) ==
    IF Len(bs) - 1 > 0 THEN keepAfter(bs, bs[Len(bs)].Date - 12) ELSE bs

RECURSIVE scanAll(_, _, _)
scanAll(acc, ls, yearAgo) ==
    IF ls = <<>> THEN acc ELSE scanAll(scanLine(acc, Head(ls), yearAgo), Tail(ls), yearAgo)

\* loadBrowserOSStats(file) at the date `date`; `files` maps the names of the
\* files that exist to their lines, and os.Open fails on any other name
loadBrowserOSStats(files, file, date) ==
    IF ~Has(files, file) THEN [panic |-> FALSE, browsers |-> <<>>]
    ELSE LET r == scanAll([panic |-> FALSE, browsers |-> <<>>], files[file], yearAgoOf(date))
         IN IF r.panic THEN r ELSE [r EXCEPT !.browsers = trimToYear(@)]

\* loadDeviceDetails(file); `files` maps the names of the files that exist to
\* the profiles they hold
loadDeviceDetails(files, file) == IF ~Has(files, file) THEN <<>> ELSE files[file]

-----------------------------------------------------------------------------
(* The loader as a state machine: one step per line of the file *)

\* the date of time.Now() during a load: 2021-07
LoadDate == 30

\* a well-formed line, and the same line with extra fields
FullLines ==
    {<<d, "Linux", "5", "Chrome", "90", w>> :
        d \in {"2019-06-01", "2020-01-01", "2021-05-01", "yesterday"}, w \in {"1", "many"}}

\* the lines of a usage file: well-formed lines, lines with a seventh field,
\* and lines cut short after one, four or five fields
LineInputs ==
    FullLines
      \cup {l \o <<"extra">> : l \in {f \in FullLines : f[1] = "2021-05-01"}}
      \cup {SubSeq(l, 1, n) : l \in {f \in FullLines : f[1] = "2021-05-01"}, n \in {1, 4, 5}}

LoadInit ==
    /\ lines \in SeqsUpTo(LineInputs, MaxLines)
    /\ ln = 1
    /\ loaded = [panic |-> FALSE, browsers |-> <<>>]
    /\ lpc = "scan"
    /\ AggIdle
    /\ CacheIdle

\* for scanner.Scan() { ... }: the loop body on the next line
ScanLine ==
    /\ lpc = "scan"
    /\ ln <= Len(lines)
    /\ LET r == scanLine(loaded, lines[ln], yearAgoOf(LoadDate))
       IN /\ loaded' = r
          /\ lpc' = IF r.panic THEN "panic" ELSE "scan"
    /\ ln' = ln + 1
    /\ UNCHANGED <<lines, aggVars, cacheVars>>

\* the scanner is exhausted: trim to a year and return
FinishLoad ==
    /\ lpc = "scan"
    /\ ln > Len(lines)
    /\ loaded' = [loaded EXCEPT !.browsers = trimToYear(@)]
    /\ lpc' = "done"
    /\ UNCHANGED <<lines, ln, aggVars, cacheVars>>

LoadNext == ScanLine \/ FinishLoad

SpecLoad == LoadInit /\ [][LoadNext]_vars

\* a line that parses into a UsageRecord: six fields or more, an integer
\* weight, a date
WellFormed(data) ==
    /\ Len(data) >= 6
    /\ data[6] \in DOMAIN IntText
    /\ data[1] \in DOMAIN DateText

(* C10: a line that cannot be parsed into a UsageRecord (too few fields,      *)
(* whatever their number, a non-integer weight, an unparsable date) is       *)
(* dropped and loading continues with the next line: every line of the file  *)
(* is reached, and no line aborts the batch.                                 *)
C10_MalformedLineSkipped ==
    /\ lpc # "panic"
    /\ lpc = "done" =>
          /\ ln = Len(lines) + 1
          /\ \A i \in DOMAIN lines :
                ~WellFormed(lines[i]) =>
                    \A j \in DOMAIN loaded.browsers :
                        loaded.browsers[j].Date \in
                            {DateText[lines[k][1]] : k \in {m \in DOMAIN lines : WellFormed(lines[m])}}

-----------------------------------------------------------------------------
(* Cache manager: GetStats, renameCurrentStats, analyseAndWriteToFile,       *)
(* DownloadData, download                                                    *)

\* the date of an instant: time.Now().Format(dateFormat), time.Now().Date()
DateOf(t) == t \div TicksPerDate

\* the instant of a date: time.Date(year, month, day, 0, 0, 0, 0, time.UTC)
InstantOf(d) == d * TicksPerDate

\* the content of tls-stats-current.json
AbsentFile     == [kind |-> "absent", rep |-> ZeroStatistics]
CorruptFile    == [kind |-> "corrupt", rep |-> ZeroStatistics]
ReportFile(r)  == [kind |-> "report", rep |-> r]

\* statistics.GenerationDate.Before(time.Now().AddDate(0, -6, 0))
isStale(generationDate, t) ==
    InstantOf(generationDate) < t - InstantOf(StaleMonths)

\* download(filename, url, force) on the directory `files`; `resp` is what
\* http.Get gives.  The error of http.Get is assigned to a variable that
\* shadows the result, so the only error returned is the one for a file that
\* exists already.
download(files, filename, resp, force) ==
    IF force \/ ~Has(files, filename)
    THEN IF resp.ok
         THEN [files |-> Put(files, filename, resp.body), err |-> FALSE, failed |-> FALSE]
         ELSE [files |-> files, err |-> FALSE, failed |-> TRUE]
    ELSE [files |-> files, err |-> TRUE, failed |-> FALSE]

\* DownloadData(force): the usage file, then the capability file
DownloadData(bf, df, day, force, respB, respD) ==
    LET b == download(bf, day, respB, force)
    IN IF b.err
       THEN [bf |-> b.files, df |-> df, err |-> TRUE, failed |-> b.failed]
       ELSE LET d == download(df, day, respD, force)
            IN [bf |-> b.files, df |-> d.files, err |-> d.err,
                failed |-> b.failed \/ d.failed]

\* renameCurrentStats(): an artifact that exists and parses is renamed to
\* tls-stats-<its GenerationDate>.json, replacing a file of that name; a failed
\* rename is logged and nothing else
renameCurrentStats(cur, arch, renameOk) ==
    IF cur.kind # "absent" /\ cur.kind = "report" /\ renameOk
    THEN [cur |-> AbsentFile, arch |-> Put(arch, cur.rep.GenerationDate, cur.rep),
          renamed |-> TRUE]
    ELSE [cur |-> cur, arch |-> arch, renamed |-> FALSE]

\* json.MarshalIndent fails on a NaN, which is what 0/0 is
marshalFails(st) ==
    \E seq \in {st.Protocols, st.Ciphers, st.Curves} :
        \E i \in DOMAIN seq : seq[i].Den = 0 /\ seq[i].Num = 0

\* analyseStats(false) on the data files named after `day`, at the instant t
analyseFiles(bf, df, day, t) ==
    LET bs == loadBrowserOSStats(bf, day, DateOf(t)).browsers
        ds == loadDeviceDetails(df, day)
        j  == joinBrowsers(bs, ds)
    IN [browsers |-> bs, devices |-> ds, join |-> j]

\* the usage datasets and the capability dataset the two URLs can serve: the
\* usage of one key with weight 1, 2 or 0
RemoteUsage ==
    {<< <<"2020-01-01", "Linux", "5", "Chrome", "90", "1">> >>,
     << <<"2020-01-01", "Linux", "5", "Chrome", "90", "2">> >>,
     << <<"2020-01-01", "Linux", "5", "Chrome", "90", "0">> >>}

RemoteDevices ==
    {<< [Name |-> "Chrome", Version |-> "90", LowestProtocol |-> 771,
         HighestProtocol |-> 771, SuiteIds |-> <<4865>>, EllipticCurves |-> <<29>>] >>}

Responses(bodies) ==
    {[ok |-> FALSE, body |-> <<>>]} \cup {[ok |-> TRUE, body |-> b] : b \in bodies}

\* the instants at which the program runs: at the start and later that day,
\* and the same again six months on
Instants == {0, 1, InstantOf(StaleMonths), InstantOf(StaleMonths) + 1}

\* the outcomes of os.Rename: it is only called on an artifact that parses
RenameOutcomes(cur) == IF cur.kind = "report" THEN BOOLEAN ELSE {TRUE}

CacheInit ==
    /\ now = 0
    /\ today = 0
    /\ current \in {AbsentFile, CorruptFile}
    /\ archive = EmptyMap
    /\ browserFile = EmptyMap
    /\ deviceFile = EmptyMap
    /\ written = {}
    /\ last = [op |-> "none"]
    /\ calls = 0
    /\ AggIdle
    /\ LoadIdle

\* time passes, from one of the instants at which the program runs to a later
\* one
Tick ==
    /\ \E t \in Instants : t > now /\ now' = t
    /\ UNCHANGED <<today, current, archive, browserFile, deviceFile, written, last, calls,
                   aggVars, loadVars>>

\* the process is started again: the package variable today is set anew
Restart ==
    /\ today # DateOf(now)
    /\ today' = DateOf(now)
    /\ UNCHANGED <<now, current, archive, browserFile, deviceFile, written, last, calls,
                   aggVars, loadVars>>

\* what a call of GetStats leaves behind, given which steps it took:
\*   rn  the result of renameCurrentStats (or the files as they were),
\*   dl  the result of DownloadData (or the files as they were),
\*   and then analyseAndWriteToFile() on those files
AnalyseAndWrite(force, stale, steps, rn, dl, writeOk) ==
    LET a  == analyseFiles(dl.bf, dl.df, today, now)
    IN \E order \in Perms(DOMAIN a.join.browserMap) :
         LET st == getTLSStats(a.join.browserMap, a.devices, order)
             dr == getDateRange(a.browsers)
         IN \E ps \in sortResults(st.Protocols),
               cs \in sortResults(st.Ciphers),
               vs \in sortResults(st.Curves) :
              LET rep     == toJSONStruct(st, dr.start, dr.end, ps, cs, vs, DateOf(now))
                  marshal == ~marshalFails(rep)
                  wrote   == marshal /\ writeOk
              IN /\ current' = IF wrote THEN ReportFile(rep) ELSE rn.cur
                 /\ archive' = rn.arch
                 /\ browserFile' = dl.bf
                 /\ deviceFile' = dl.df
                 /\ written' = IF wrote THEN written \cup {rep} ELSE written
                 /\ last' = [op |-> "GetStats", force |-> force, at |-> now,
                             pre |-> current, stale |-> stale,
                             steps |-> steps \o <<"analyse">>
                                        \o (IF marshal THEN <<"write">> ELSE <<>>),
                             renamed |-> rn.renamed,
                             unavailable |-> dl.failed \/ ~Has(dl.bf, today)
                                               \/ ~Has(dl.df, today),
                             ret |-> rep,
                             err |-> IF ~marshal THEN "marshal"
                                     ELSE IF ~writeOk THEN "write" ELSE "nil",
                             wrote |-> wrote,
                             inplace |-> wrote /\ rn.cur.kind # "absent",
                             changed |-> \/ wrote
                                         \/ rn.cur # current
                                         \/ dl.bf # browserFile
                                         \/ dl.df # deviceFile]

NoRename == [cur |-> current, arch |-> archive, renamed |-> FALSE]

\* GetStats(true)
GetStatsForced ==
    /\ calls < MaxCalls
    /\ calls' = calls + 1
    /\ \E respB \in Responses(RemoteUsage), respD \in Responses(RemoteDevices),
          renameOk \in RenameOutcomes(current), writeOk \in BOOLEAN :
         LET dl == DownloadData(browserFile, deviceFile, today, TRUE, respB, respD)
             rn == renameCurrentStats(current, archive, renameOk)
         IN \* DownloadData(true) never returns an error
            AnalyseAndWrite(TRUE, FALSE, <<"download", "rename">>, rn, dl, writeOk)
    /\ UNCHANGED <<now, today, aggVars, loadVars>>

\* GetStats(false) with no tls-stats-current.json
GetStatsNoReport ==
    /\ calls < MaxCalls
    /\ current.kind = "absent"
    /\ calls' = calls + 1
    /\ \E respB \in Responses(RemoteUsage), respD \in Responses(RemoteDevices),
          writeOk \in BOOLEAN :
         LET dl == DownloadData(browserFile, deviceFile, today, FALSE, respB, respD)
         IN AnalyseAndWrite(FALSE, FALSE, <<"download">>, NoRename, dl, writeOk)
    /\ UNCHANGED <<now, today, aggVars, loadVars>>

\* GetStats(false) with a tls-stats-current.json that parses and is stale
GetStatsStale ==
    /\ calls < MaxCalls
    /\ current.kind = "report"
    /\ isStale(current.rep.GenerationDate, now)
    /\ calls' = calls + 1
    /\ \E respB \in Responses(RemoteUsage), respD \in Responses(RemoteDevices),
          renameOk \in RenameOutcomes(current), writeOk \in BOOLEAN :
         LET rn == renameCurrentStats(current, archive, renameOk)
             dl == DownloadData(browserFile, deviceFile, today, FALSE, respB, respD)
         IN AnalyseAndWrite(FALSE, TRUE, <<"rename", "download">>, rn, dl, writeOk)
    /\ UNCHANGED <<now, today, aggVars, loadVars>>

\* GetStats(false) with a tls-stats-current.json that is not stale, or cannot
\* be read or parsed: the named results are returned as they are
GetStatsCached ==
    /\ calls < MaxCalls
    /\ \/ current.kind = "corrupt"
       \/ current.kind = "report" /\ ~isStale(current.rep.GenerationDate, now)
    /\ calls' = calls + 1
    /\ last' = [op |-> "GetStats", force |-> FALSE, at |-> now,
                pre |-> current, stale |-> FALSE, steps |-> <<>>,
                renamed |-> FALSE, unavailable |-> FALSE,
                ret |-> current.rep, err |-> "nil", wrote |-> FALSE, inplace |-> FALSE,
                changed |-> FALSE]
    /\ UNCHANGED <<now, today, current, archive, browserFile, deviceFile, written,
                   aggVars, loadVars>>

CacheNext ==
    \/ Tick
    \/ Restart
    \/ GetStatsForced
    \/ GetStatsNoReport
    \/ GetStatsStale
    \/ GetStatsCached

SpecCache == CacheInit /\ [][CacheNext]_vars

-----------------------------------------------------------------------------
(* Vocabulary of the properties of the cache manager.  The files change only  *)
(* in a call of GetStats, so after a call `last` describes the call and the  *)
(* file variables are what it left behind.                                   *)

Called(force) == last.op = "GetStats" /\ last.force = force

\* the artifact the call found is now the archive named after its date
ArchivedPre ==
    /\ Has(archive, last.pre.rep.GenerationDate)
    /\ archive[last.pre.rep.GenerationDate] = last.pre.rep

\* the call computed a report, stored it as the current artifact and returned it
WroteNewReport ==
    /\ last.wrote
    /\ current = ReportFile(last.ret)
    /\ last.ret.GenerationDate = DateOf(last.at)

\* the artifact the call found was generated more than six months before the
\* call
OlderThanSixMonths ==
    last.pre.rep.GenerationDate * TicksPerDate + 6 * TicksPerDate < last.at

(* C1: GetStats(false) on an artifact that exists and parses: if it is older  *)
(* than six months it is first archived under the name of its own            *)
(* generationDate and then the pipeline is recomputed, and the new report    *)
(* written and returned; otherwise the cached report is returned as it is,   *)
(* with no recomputation, no download and no change to any file.             *)
C1_StaleArchivedFreshServed ==
    (Called(FALSE) /\ last.pre.kind = "report") =>
        IF OlderThanSixMonths
        THEN last.err = "nil" =>
                /\ last.steps = <<"rename", "download", "analyse", "write">>
                /\ ArchivedPre
                /\ WroteNewReport
        ELSE /\ last.ret = last.pre.rep
             /\ last.steps = <<>>
             /\ ~last.changed

(* C2: GetStats(false) on an artifact that exists but cannot be read or       *)
(* parsed recomputes the pipeline, and writes and returns the new report.    *)
C2_CorruptArtifactRecomputed ==
    (Called(FALSE) /\ last.pre.kind = "corrupt") =>
        /\ "analyse" \in Range(last.steps)
        /\ last.err = "nil" => WroteNewReport

(* C3: when the retrieval of a source dataset fails (the download fails or    *)
(* the data file is absent), GetStats returns an error and produces no       *)
(* report: nothing is written to the current artifact.                       *)
C3_SourceUnavailablePropagated ==
    (last.op = "GetStats" /\ last.unavailable) =>
        /\ last.err # "nil"
        /\ ~last.wrote

(* C4: GetStats(true), whatever the cache holds, archives the artifact that   *)
(* exists and then computes and writes a new report.                         *)
C4_ForcedArchivesThenRecomputes ==
    Called(TRUE) =>
        /\ "analyse" \in Range(last.steps)
        /\ last.pre.kind # "absent" => last.renamed
        /\ last.pre.kind = "report" => ArchivedPre
        /\ last.err = "nil" => WroteNewReport

(* C5: a report, once written, is only ever moved to the archive named after  *)
(* its generationDate and never overwritten in place: every report that was  *)
(* written is still there, as the current artifact or as an archive.         *)
C5_ReportsImmutable ==
    /\ \A r \in written :
          \/ current = ReportFile(r)
          \/ \E d \in DOMAIN archive : archive[d] = r
    /\ last.op = "GetStats" => ~last.inplace

====
